---- MODULE Spec2Model ----
(***************************************************************************)
(* MC Alger Store API (src/main.py, src/schemas.py): the request handlers  *)
(* of the FastAPI application over a MongoDB database.                     *)
(*                                                                         *)
(* Handlers declared with `def` run on FastAPI's worker threads, so several*)
(* requests execute at once and interleave at their database calls.  One   *)
(* step of the model is one handler run up to and including its next       *)
(* database round trip.  Handlers with one round trip are one step;        *)
(* add_review (find_one, then insert) and seed_catalog (count_documents,   *)
(* then three inserts) are several steps of a worker thread.               *)
(*                                                                         *)
(* Representation.                                                         *)
(*   - A dict is a function from its keys; a missing key is a key outside  *)
(*     its DOMAIN.  Python's None and {} (both falsy documents) are NoDoc. *)
(*   - An ObjectId is <<collection, n>>; the string str(oid) is            *)
(*     <<"hex", collection, n>>; a string that is no 24-digit hex string   *)
(*     is <<"bad", ..>>.                                                   *)
(*   - Text that is searched (title, q) is a tuple of characters.          *)
(*   - A raw quantity is counted in halves (3 is 1.5), int() truncates.    *)
(*   - A raw price is [t |-> its JSON type, v |-> its value]; float()      *)
(*     yields the value of a number and of a numeral string alike.         *)
(*   - A rating of a product is counted in tenths (49 is 4.9).             *)
(***************************************************************************)
EXTENDS Integers, Sequences, FiniteSets, TLC

VARIABLES configured, store, th, resp

vars == <<configured, store, th, resp>>

(* Bound of the model: the documents the requests may insert outside the *)
(* product collection (reviews, wishlist items and orders together).     *)
MaxDocs == 2

None == "None"
NoDoc == <<>>

get(d, k, default) == IF k \in DOMAIN d THEN d[k] ELSE default

(* ------------------------------------------------------------------ *)
(* bson.ObjectId                                                      *)
(* ------------------------------------------------------------------ *)
str(oid) == <<"hex", oid[1], oid[2]>>

is_valid(s) == s[1] = "hex"

ObjectId(s) == <<s[2], s[3]>>

(* ------------------------------------------------------------------ *)
(* database.py: the primitives main.py imports.                       *)
(* ------------------------------------------------------------------ *)
InsertedId(st, c) == <<c, Cardinality(st[c]) + 1>>

WithId(data, oid) ==
  [k \in DOMAIN data \cup {"_id"} |-> IF k = "_id" THEN oid ELSE data[k]]

(* Raises when the database handle is unset; otherwise inserts one new  *)
(* document and returns its identifier as a string.                     *)
create_document(cfg, st, c, data) ==
  IF ~cfg
    THEN [raised |-> TRUE, store |-> st, id |-> <<"bad", c, 0>>]
    ELSE [raised |-> FALSE,
          store |-> [st EXCEPT ![c] = @ \cup {WithId(data, InsertedId(st, c))}],
          id |-> str(InsertedId(st, c))]

find_one(st, c, oid) ==
  IF \E d \in st[c] : d._id = oid
    THEN CHOOSE d \in st[c] : d._id = oid
    ELSE NoDoc

count_documents(st, c) == Cardinality(st[c])

UpperCase == <<"A","B","C","D","E","F","G","H","I","J","K","L","M",
               "N","O","P","Q","R","S","T","U","V","W","X","Y","Z">>

LowerCase == <<"a","b","c","d","e","f","g","h","i","j","k","l","m",
               "n","o","p","q","r","s","t","u","v","w","x","y","z">>

ToLower ==
  [c \in {UpperCase[i] : i \in DOMAIN UpperCase} |->
     LowerCase[CHOOSE i \in DOMAIN UpperCase : UpperCase[i] = c]]

Lower(c) == IF c \in DOMAIN ToLower THEN ToLower[c] ELSE c

(* {"$regex": pat, "$options": "i"} for a pattern of letters, digits and *)
(* spaces: the pattern occurs somewhere in s, letter case ignored.       *)
RegexSearchI(pat, s) ==
  \E i \in 0..(Len(s) - Len(pat)) :
    \A j \in 1..Len(pat) : Lower(s[i + j]) = Lower(pat[j])

Matches(doc, f) ==
  \A k \in DOMAIN f :
    CASE k = "title" -> RegexSearchI(f[k].regex, doc.title)
      [] k = "sizes" -> \E i \in DOMAIN doc.sizes : doc.sizes[i] = f[k]
      [] OTHER -> doc[k] = f[k]

get_documents(st, c, f) == {d \in st[c] : Matches(d, f)}

(* ------------------------------------------------------------------ *)
(* main.py helpers                                                    *)
(* ------------------------------------------------------------------ *)
to_public(doc) ==
  IF DOMAIN doc = {}
    THEN doc
    ELSE [k \in (DOMAIN doc \ {"_id"}) \cup {"id"} |->
            IF k = "id" THEN str(doc._id) ELSE doc[k]]

DocCount(st) ==
  Cardinality(st.product) + Cardinality(st.review)
    + Cardinality(st.wishlist) + Cardinality(st.order)

Out(result, calls, body) == [result |-> result, calls |-> calls, body |-> body]

NotConfigured == Out("not_configured", 0, [detail |-> "Database not configured"])

NotFound == Out("not_found", 1, [detail |-> "Product not found"])

(* ------------------------------------------------------------------ *)
(* seed_catalog                                                       *)
(* ------------------------------------------------------------------ *)
sample_products == <<
  [title |-> <<"M","C"," ","A","l","g","e","r"," ","H","o","m","e"," ",
               "K","i","t"," ","2","0","2","4">>,
   description |-> "Official home kit in green with red trim.",
   price |-> 12999, category |-> "t-shirt", color |-> "green",
   collection |-> "home", sizes |-> <<"S", "M", "L", "XL">>,
   images |-> <<[url |-> "photo-1546519638-68e109498ffc", alt |-> "Home kit"]>>,
   rating |-> 49, reviews_count |-> 128, in_stock |-> TRUE],
  [title |-> <<"M","C","A"," ","T","r","a","i","n","i","n","g"," ",
               "T","r","a","c","k","s","u","i","t">>,
   description |-> "High-performance tracksuit with MCA crest.",
   price |-> 18999, category |-> "tracksuit", color |-> "green",
   collection |-> "training", sizes |-> <<"M", "L", "XL">>,
   images |-> <<[url |-> "photo-1511735111819-9a3f7709049c", alt |-> "Tracksuit"]>>,
   rating |-> 47, reviews_count |-> 76, in_stock |-> TRUE],
  [title |-> <<"R","e","t","r","o"," ","1","9","9","0","s"," ",
               "H","o","o","d","i","e">>,
   description |-> "Throwback hoodie inspired by MCA 90s era.",
   price |-> 14999, category |-> "hoodie", color |-> "red",
   collection |-> "retro", sizes |-> <<"S", "M", "L">>,
   images |-> <<[url |-> "photo-1544025162-d76694265947", alt |-> "Retro hoodie"]>>,
   rating |-> 46, reviews_count |-> 52, in_stock |-> TRUE] >>

(* The handler without its guard: subscripting None raises TypeError. *)
seed_count_noguard(cfg, st) ==
  IF ~cfg
    THEN [go |-> FALSE, out |-> Out("TypeError", 0, [detail |-> "NoneType"])]
    ELSE IF count_documents(st, "product") > 0
      THEN [go |-> FALSE, out |-> Out("ok", 1, [status |-> "exists"])]
      ELSE [go |-> TRUE, out |-> Out("running", 1, NoDoc)]

seed_count(cfg, st) ==
  IF ~cfg
    THEN [go |-> FALSE, out |-> NotConfigured]
    ELSE IF count_documents(st, "product") > 0
      THEN [go |-> FALSE, out |-> Out("ok", 1, [status |-> "exists"])]
      ELSE [go |-> TRUE, out |-> Out("running", 1, NoDoc)]

(* ------------------------------------------------------------------ *)
(* list_products                                                      *)
(* ------------------------------------------------------------------ *)
(* The parameters tested with `is not None` in place of their truth value. *)
filter_dict_is_not_none(qr) ==
  LET keys == {k \in {"title", "category", "color", "collection", "sizes"} :
                 CASE k = "title" -> "q" \in DOMAIN qr
                   [] k = "sizes" -> "size" \in DOMAIN qr
                   [] OTHER -> k \in DOMAIN qr}
  IN [k \in keys |->
        CASE k = "title" -> [regex |-> qr.q, options |-> "i"]
          [] k = "sizes" -> qr.size
          [] OTHER -> qr[k]]

filter_dict(qr) ==
  LET given(p) == p \in DOMAIN qr
      keys == {k \in {"title", "category", "color", "collection", "sizes"} :
                 CASE k = "title" -> given("q") /\ qr.q # <<>>
                   [] k = "sizes" -> given("size") /\ qr.size # ""
                   [] OTHER -> given(k) /\ qr[k] # ""}
  IN [k \in keys |->
        CASE k = "title" -> [regex |-> qr.q, options |-> "i"]
          [] k = "sizes" -> qr.size
          [] OTHER -> qr[k]]

list_products(cfg, st, qr) ==
  IF ~cfg
    THEN [store |-> st, out |-> NotConfigured]
    ELSE [store |-> st,
          out |-> Out("ok", 1,
                      {to_public(i) : i \in get_documents(st, "product", filter_dict(qr))})]

(* ------------------------------------------------------------------ *)
(* get_product                                                        *)
(* ------------------------------------------------------------------ *)
InvalidId == Out("InvalidId", 0, [detail |-> "not a valid ObjectId"])

get_product(cfg, st, product_id) ==
  IF ~cfg
    THEN [store |-> st, out |-> NotConfigured]
    ELSE IF ~is_valid(product_id)
      THEN [store |-> st, out |-> InvalidId]
      ELSE LET doc == find_one(st, "product", ObjectId(product_id))
           IN IF DOMAIN doc = {}
                THEN [store |-> st, out |-> NotFound]
                ELSE [store |-> st, out |-> Out("ok", 1, to_public(doc))]

(* ------------------------------------------------------------------ *)
(* schemas.py                                                         *)
(* ------------------------------------------------------------------ *)
(* The rating bounded below by 0, as a product's rating is. *)
Review_ge0(payload) ==
  /\ {"product_id", "user_name", "rating"} \subseteq DOMAIN payload
  /\ payload.rating >= 0
  /\ payload.rating <= 5

Review(payload) ==
  /\ {"product_id", "user_name", "rating"} \subseteq DOMAIN payload
  /\ payload.rating >= 1
  /\ payload.rating <= 5

Review_model_dump(payload) ==
  [product_id |-> payload.product_id, user_name |-> payload.user_name,
   rating |-> payload.rating, comment |-> get(payload, "comment", None)]

OrderItem(i) ==
  /\ i.product_id # None
  /\ i.title # None
  /\ i.qty >= 1

Order(items, total) ==
  [user_id |-> None, items |-> items, total |-> total, currency |-> "DZD",
   status |-> "pending", email |-> None, shipping_address |-> None]

OrderValid(order) == \A n \in DOMAIN order.items : OrderItem(order.items[n])

RequestValidationError ==
  Out("RequestValidationError", 0, [detail |-> "field required or out of range"])

ValidationError == Out("ValidationError", 0, [detail |-> "pydantic ValidationError"])

(* ------------------------------------------------------------------ *)
(* add_review                                                         *)
(* ------------------------------------------------------------------ *)
(* The handler without the lookup that ensures the product exists. *)
add_review_lookup_nofind(cfg, st, product_id, payload) ==
  IF ~Review(payload)
    THEN [go |-> FALSE, out |-> RequestValidationError]
    ELSE IF ~cfg
      THEN [go |-> FALSE, out |-> NotConfigured]
      ELSE [go |-> TRUE, out |-> Out("running", 0, NoDoc)]

add_review_lookup(cfg, st, product_id, payload) ==
  IF ~Review(payload)
    THEN [go |-> FALSE, out |-> RequestValidationError]
    ELSE IF ~cfg
      THEN [go |-> FALSE, out |-> NotConfigured]
      ELSE IF ~is_valid(product_id)
        THEN [go |-> FALSE, out |-> InvalidId]
        ELSE IF DOMAIN find_one(st, "product", ObjectId(product_id)) = {}
          THEN [go |-> FALSE, out |-> NotFound]
          ELSE [go |-> TRUE, out |-> Out("running", 1, NoDoc)]

add_review_data(product_id, payload) ==
  [Review_model_dump(payload) EXCEPT !.product_id = product_id]

(* The insert followed by an increment of the product's reviews_count. *)
add_review_persist_bump(cfg, st, data) ==
  LET r == create_document(cfg, st, "review", data)
      p == find_one(st, "product", ObjectId(data.product_id))
  IN IF r.raised
       THEN r
       ELSE [r EXCEPT !.store.product =
               (@ \ {p}) \cup {[p EXCEPT !.reviews_count = @ + 1]}]

add_review_persist(cfg, st, data) == create_document(cfg, st, "review", data)

(* ------------------------------------------------------------------ *)
(* wishlist_add                                                       *)
(* ------------------------------------------------------------------ *)
wishlist_add(cfg, st, item) ==
  IF "product_id" \notin DOMAIN item
    THEN [store |-> st, out |-> RequestValidationError]
    ELSE LET r == create_document(cfg, st, "wishlist", [product_id |-> item.product_id])
         IN IF r.raised
              THEN [store |-> st, out |-> NotConfigured]
              ELSE [store |-> r.store, out |-> Out("ok", 1, [status |-> "ok"])]

(* ------------------------------------------------------------------ *)
(* checkout                                                           *)
(* ------------------------------------------------------------------ *)
float(x) == x.v

Zero == [t |-> "int", v |-> 0]

int(h) == IF h >= 0 THEN h \div 2 ELSE -((-h) \div 2)

(* The total as the sum of the prices, the quantities left out. *)
RECURSIVE checkout_total_noqty(_)
checkout_total_noqty(items) ==
  IF items = <<>>
    THEN 0
    ELSE float(get(Head(items), "price", Zero)) + checkout_total_noqty(Tail(items))

RECURSIVE checkout_total(_)
checkout_total(items) ==
  IF items = <<>>
    THEN 0
    ELSE float(get(Head(items), "price", Zero)) * int(get(Head(items), "qty", 2))
           + checkout_total(Tail(items))

checkout_items(items) ==
  [n \in DOMAIN items |->
     [product_id |-> get(items[n], "product_id", None),
      title |-> get(items[n], "title", None),
      price |-> float(get(items[n], "price", Zero)),
      size |-> get(items[n], "size", None),
      qty |-> int(get(items[n], "qty", 2))]]

(* The insert skipped when an order with the same content is stored. *)
checkout_persist_dedup(cfg, st, order) ==
  IF cfg /\ \E o \in st.order : [k \in DOMAIN order |-> o[k]] = order
    THEN [raised |-> FALSE, store |-> st,
          id |-> str((CHOOSE o \in st.order : [k \in DOMAIN order |-> o[k]] = order)._id)]
    ELSE create_document(cfg, st, "order", order)

checkout_persist(cfg, st, order) == create_document(cfg, st, "order", order)

checkout(cfg, st, payload) ==
  IF "items" \notin DOMAIN payload
    THEN [store |-> st, out |-> RequestValidationError]
    ELSE LET total == checkout_total(payload.items)
             order == Order(checkout_items(payload.items), total)
         IN IF ~OrderValid(order)
              THEN [store |-> st, out |-> ValidationError]
              ELSE LET r == checkout_persist(cfg, st, order)
                   IN IF r.raised
                        THEN [store |-> st, out |-> NotConfigured]
                        ELSE [store |-> r.store,
                              out |-> Out("ok", 1, [status |-> "ok", order_id |-> r.id,
                                                    total |-> total])]

(* ------------------------------------------------------------------ *)
(* Requests                                                           *)
(* ------------------------------------------------------------------ *)
Restrict(f, K) == [k \in K |-> f[k]]

Pid(n) == str(<<"product", n>>)

Malformed == <<"bad", "product", 0>>

ProductIds == {Pid(1), Pid(9), Malformed}

Params == {"q", "category", "color", "size", "collection"}

FullQueries ==
  [q : {<<>>, <<"K","I","T">>},
   category : {"", "t-shirt"},
   color : {"green"},
   size : {"XL"},
   collection : {"retro"}]

(* Every combination of absent and supplied parameters, and each of the *)
(* remaining parameters supplied empty.                                 *)
Queries ==
  {Restrict(f, K) : f \in FullQueries, K \in SUBSET Params}
  \cup {[color |-> "", category |-> "hoodie"], [size |-> "", color |-> "red"],
        [collection |-> "", q |-> <<"m","c","a">>]}

FewQueries == {NoDoc, [category |-> "t-shirt", color |-> "green"]}

FewReviews ==
  {[product_id |-> Pid(7), user_name |-> "amine", rating |-> 5, comment |-> "allez MCA"],
   [product_id |-> Pid(7), user_name |-> "amine", rating |-> 6, comment |-> "allez MCA"]}

ReviewPayloads ==
  {[product_id |-> Pid(7), user_name |-> "amine", rating |-> r, comment |-> "allez MCA"] :
     r \in {0, 1, 5, 6}}
  \cup {[product_id |-> Pid(7), user_name |-> "amine", rating |-> 3],
        [product_id |-> Pid(7), rating |-> 4, comment |-> "no name"]}

WishlistItems == {[product_id |-> Malformed], NoDoc}

Dzd(n) == [t |-> "int", v |-> n]

ItemA == [product_id |-> "p1", title |-> "Home Kit", price |-> Dzd(100), size |-> "M", qty |-> 4]

ItemB == [product_id |-> "p3", title |-> "Hoodie", price |-> [t |-> "str", v |-> 50], qty |-> 2]

ItemLists ==
  {<<>>,
   <<ItemA, ItemB>>,
   <<[product_id |-> "p2", title |-> "Tracksuit"]>>,
   <<[product_id |-> "p1", title |-> "Home Kit", price |-> Dzd(100), qty |-> 3]>>,
   <<[product_id |-> "p1", title |-> "Home Kit", price |-> Dzd(100), qty |-> 1]>>,
   <<ItemB, [product_id |-> "p1", title |-> "Home Kit", price |-> Dzd(100), qty |-> 0]>>,
   <<[product_id |-> "p1", price |-> Dzd(100), qty |-> 2]>>,
   <<[title |-> "Home Kit", price |-> Dzd(100), qty |-> 2]>>}

CheckoutPayloads == {[items |-> l] : l \in ItemLists} \cup {NoDoc}

FewCheckouts ==
  {[items |-> <<ItemA, ItemB>>],
   [items |-> <<[product_id |-> "p1", title |-> "Home Kit", price |-> Dzd(100), qty |-> 0]>>],
   NoDoc}

Pool == {"w1", "w2"}

OneWorker == {"w1"}

(* ------------------------------------------------------------------ *)
(* The state machine                                                  *)
(* ------------------------------------------------------------------ *)
Idle == [pc |-> "idle", req |-> NoDoc, k |-> 0, calls |-> 0, wrote |-> 0]

Resp(op, req, out, wrote) ==
  [op |-> op, req |-> req, result |-> out.result, calls |-> out.calls,
   wrote |-> wrote, body |-> out.body]

InFlight == Cardinality({t \in DOMAIN th : th[t].pc = "add_review"})

Budget(st) ==
  Cardinality(st.review) + Cardinality(st.wishlist) + Cardinality(st.order) + InFlight
    <= MaxDocs

Start(workers) ==
  /\ configured \in BOOLEAN
  /\ store = [product |-> {}, review |-> {}, wishlist |-> {}, order |-> {}]
  /\ th = [t \in workers |-> Idle]
  /\ resp = [op |-> "none", req |-> NoDoc, result |-> "none", calls |-> 0,
             wrote |-> 0, body |-> NoDoc]

Init == Start(Pool)

(* A handler that is one step: h is [store, out]. *)
Respond(op, req, h) ==
  /\ Budget(h.store)
  /\ store' = h.store
  /\ resp' = Resp(op, req, h.out, DocCount(h.store) - DocCount(store))
  /\ UNCHANGED <<configured, th>>

ListProducts(qr) == Respond("list_products", qr, list_products(configured, store, qr))

GetProduct(product_id) ==
  Respond("get_product", [product_id |-> product_id],
          get_product(configured, store, product_id))

WishlistAdd(item) == Respond("wishlist_add", item, wishlist_add(configured, store, item))

Checkout(payload) == Respond("checkout", payload, checkout(configured, store, payload))

(* The pool hands a request to an idle worker thread. *)
Worker == CHOOSE t \in DOMAIN th : th[t].pc = "idle"

SeedStart ==
  /\ \E t \in DOMAIN th : th[t].pc = "idle"
  /\ LET r == seed_count(configured, store)
         t == Worker
     IN IF r.go
          THEN /\ th' = [th EXCEPT ![t] = [Idle EXCEPT !.pc = "seed", !.k = 1,
                                                       !.calls = r.out.calls]]
               /\ UNCHANGED resp
          ELSE /\ resp' = Resp("seed_catalog", NoDoc, r.out, 0)
               /\ UNCHANGED th
  /\ UNCHANGED <<configured, store>>

SeedInsert(t) ==
  /\ th[t].pc = "seed"
  /\ LET r == create_document(configured, store, "product", sample_products[th[t].k])
         wrote == th[t].wrote + DocCount(r.store) - DocCount(store)
         calls == th[t].calls + 1
     IN /\ store' = r.store
        /\ IF r.raised
             THEN /\ resp' = Resp("seed_catalog", NoDoc, NotConfigured, wrote)
                  /\ th' = [th EXCEPT ![t] = Idle]
             ELSE IF th[t].k < Len(sample_products)
               THEN /\ th' = [th EXCEPT ![t].k = @ + 1, ![t].calls = calls,
                                        ![t].wrote = wrote]
                    /\ UNCHANGED resp
               ELSE /\ resp' = Resp("seed_catalog", NoDoc,
                                    Out("ok", calls, [status |-> "seeded",
                                                      count |-> Len(sample_products)]),
                                    wrote)
                    /\ th' = [th EXCEPT ![t] = Idle]
  /\ UNCHANGED configured

AddReviewStart(product_id, payload) ==
  /\ \E t \in DOMAIN th : th[t].pc = "idle"
  /\ LET req == [product_id |-> product_id, payload |-> payload]
         t == Worker
         r == add_review_lookup(configured, store, product_id, payload)
     IN IF r.go
          THEN /\ th' = [th EXCEPT ![t] = [Idle EXCEPT !.pc = "add_review", !.req = req,
                                                       !.calls = r.out.calls]]
               /\ UNCHANGED resp
          ELSE /\ resp' = Resp("add_review", req, r.out, 0)
               /\ UNCHANGED th
  /\ UNCHANGED <<configured, store>>
  /\ Budget(store)'

AddReviewInsert(t) ==
  /\ th[t].pc = "add_review"
  /\ LET req == th[t].req
         r == add_review_persist(configured, store,
                                 add_review_data(req.product_id, req.payload))
         wrote == th[t].wrote + DocCount(r.store) - DocCount(store)
     IN /\ store' = r.store
        /\ resp' = Resp("add_review", req,
                        IF r.raised THEN NotConfigured
                        ELSE Out("ok", th[t].calls + 1, [status |-> "ok"]),
                        wrote)
  /\ th' = [th EXCEPT ![t] = Idle]
  /\ UNCHANGED configured

(* Every handler, two worker threads. *)
Next ==
  \/ \E qr \in FewQueries : ListProducts(qr)
  \/ \E product_id \in ProductIds : GetProduct(product_id)
  \/ \E item \in WishlistItems : WishlistAdd(item)
  \/ \E payload \in FewCheckouts : Checkout(payload)
  \/ SeedStart
  \/ \E t \in DOMAIN th : SeedInsert(t)
  \/ \E product_id \in ProductIds, payload \in FewReviews :
       AddReviewStart(product_id, payload)
  \/ \E t \in DOMAIN th : AddReviewInsert(t)

Spec == Init /\ [][Next]_vars

(* The catalog, with every combination of the listing's parameters. *)
NextCatalog ==
  \/ \E qr \in Queries : ListProducts(qr)
  \/ \E product_id \in ProductIds : GetProduct(product_id)
  \/ SeedStart
  \/ \E t \in DOMAIN th : SeedInsert(t)

SpecCatalog == Init /\ [][NextCatalog]_vars

(* The handlers that take a payload, with every payload. *)
InitPayloads == Start(OneWorker)

NextPayloads ==
  \/ \E item \in WishlistItems : WishlistAdd(item)
  \/ \E payload \in CheckoutPayloads : Checkout(payload)
  \/ SeedStart
  \/ \E t \in DOMAIN th : SeedInsert(t)
  \/ \E product_id \in ProductIds, payload \in ReviewPayloads :
       AddReviewStart(product_id, payload)
  \/ \E t \in DOMAIN th : AddReviewInsert(t)

SpecPayloads == InitPayloads /\ [][NextPayloads]_vars

(* ------------------------------------------------------------------ *)
(* Properties                                                         *)
(* ------------------------------------------------------------------ *)
Quiet == \A t \in DOMAIN th : th[t].pc = "idle"

WithoutId(d) == Restrict(d, DOMAIN d \ {"_id"})

NoProductMatches(product_id) ==
  ~\E d \in store.product : str(d._id) = product_id

ReviewOk(payload) ==
  /\ "product_id" \in DOMAIN payload
  /\ "user_name" \in DOMAIN payload
  /\ "rating" \in DOMAIN payload
  /\ payload.rating \in 1..5

ItemOk(it) ==
  /\ "product_id" \in DOMAIN it
  /\ "title" \in DOMAIN it
  /\ "qty" \in DOMAIN it => it.qty >= 2

PayloadOk(r) ==
  CASE r.op = "add_review" -> ReviewOk(r.req.payload)
    [] r.op = "wishlist_add" -> "product_id" \in DOMAIN r.req
    [] r.op = "checkout" ->
         "items" \in DOMAIN r.req /\ \A n \in DOMAIN r.req.items : ItemOk(r.req.items[n])
    [] OTHER -> TRUE

(* C1: add_review with a product id that matches no product document    *)
(* answers not-found and inserts nothing, and every review in the store *)
(* names a product that exists.                                         *)
C1_ReviewOfMissingProduct ==
  /\ (resp.op = "add_review" /\ configured /\ ReviewOk(resp.req.payload)
        /\ NoProductMatches(resp.req.product_id))
       => (resp.result = "not_found" /\ resp.wrote = 0)
  /\ \A r \in store.review : ~NoProductMatches(r.product_id)

(* C2: get_product and add_review answer an identifier that is not in   *)
(* valid ObjectId format with not-found, as they answer one that        *)
(* matches no document, and persist nothing.                            *)
C2_MalformedIdIsNotFound ==
  (resp.op \in {"get_product", "add_review"} /\ configured /\ PayloadOk(resp)
     /\ ~is_valid(resp.req.product_id))
    => (resp.result = "not_found" /\ resp.wrote = 0)

RECURSIVE ItemsSum(_)
ItemsSum(items) ==
  IF items = <<>>
    THEN 0
    ELSE Head(items).price * Head(items).qty + ItemsSum(Tail(items))

(* C3: a checkout that succeeds returns and stores the total            *)
(* sum(price * qty) of the items stored on its order, a missing price   *)
(* counting as 0 and a missing qty as 1, and 0 for no items; the order  *)
(* is "pending" in "DZD"; every order in the store has that total.      *)
C3_CheckoutTotal ==
  /\ \A o \in store.order :
       o.total = ItemsSum(o.items) /\ o.status = "pending" /\ o.currency = "DZD"
  /\ (resp.op = "checkout" /\ resp.result = "ok")
       => \E o \in store.order :
            /\ str(o._id) = resp.body.order_id
            /\ resp.body.total = o.total
            /\ resp.body.total = ItemsSum(o.items)
            /\ Len(o.items) = Len(resp.req.items)
            /\ resp.req.items = <<>> => resp.body.total = 0
            /\ \A n \in DOMAIN o.items :
                 /\ "price" \notin DOMAIN resp.req.items[n] => o.items[n].price = 0
                 /\ "qty" \notin DOMAIN resp.req.items[n] => o.items[n].qty = 1

C3_Witness ==
  /\ resp.op = "checkout"
  /\ resp.result = "ok"
  /\ resp.req.items = <<ItemA, ItemB>>
  /\ resp.body.total = 250
  /\ \E o \in store.order : o.total = 0 /\ Len(o.items) = 1

(* This step answers a request to handler op with success. *)
Answers(op) ==
  /\ resp'.op = op
  /\ resp'.result = "ok"
  /\ resp.op = op => resp' # resp

(* A parameter that is supplied; with nonEmpty, supplied and not empty. *)
Supplied(qr, p, nonEmpty) == p \in DOMAIN qr /\ (nonEmpty => Len(qr[p]) > 0)

Satisfies(d, qr, nonEmpty) ==
  /\ Supplied(qr, "q", nonEmpty) => RegexSearchI(qr.q, d.title)
  /\ Supplied(qr, "category", nonEmpty) => d.category = qr.category
  /\ Supplied(qr, "color", nonEmpty) => d.color = qr.color
  /\ Supplied(qr, "collection", nonEmpty) => d.collection = qr.collection
  /\ Supplied(qr, "size", nonEmpty) => \E i \in DOMAIN d.sizes : d.sizes[i] = qr.size

Listed(r, nonEmpty) ==
  {to_public(d) : d \in {x \in store.product : Satisfies(x, r.req, nonEmpty)}}

(* C4 as amended: list_products returns exactly the products that       *)
(* satisfy every parameter that is supplied and not empty; a parameter  *)
(* that is absent or empty contributes no condition.                    *)
C4_FilterOfNonEmptyParams ==
  [][Answers("list_products") => resp'.body = Listed(resp', TRUE)]_vars

(* C4 as stated: list_products returns exactly the products that        *)
(* satisfy every supplied parameter.                                    *)
C4_FilterOfSuppliedParams ==
  [][Answers("list_products") => resp'.body = Listed(resp', FALSE)]_vars

C4_Witness ==
  /\ resp.op = "list_products"
  /\ resp.result = "ok"
  /\ resp.req = [category |-> "t-shirt", color |-> "green"]
  /\ Cardinality(resp.body) = 1
  /\ Cardinality({d \in store.product : d.color = "green"}) = 2
  /\ Cardinality(store.product) = 3

(* C5 as amended: with the database handle unset no request is answered *)
(* with success and no document is inserted; a request whose payload    *)
(* passes validation is answered that the database is not configured,   *)
(* and one whose payload fails validation with the validation failure.  *)
C5_UnsetStoreAborts ==
  ~configured =>
    /\ DocCount(store) = 0
    /\ resp.result # "ok"
    /\ resp.wrote = 0
    /\ (resp.op # "none" /\ PayloadOk(resp)) => resp.result = "not_configured"
    /\ (resp.op # "none" /\ ~PayloadOk(resp))
         => resp.result \in {"RequestValidationError", "ValidationError"}

(* C5 as stated: with the database handle unset every request is        *)
(* answered that the database is not configured, and inserts nothing.   *)
C5_UnsetStoreAlwaysReported ==
  (~configured /\ resp.op # "none")
    => (resp.result = "not_configured" /\ DocCount(store) = 0)

C5_Witness ==
  /\ ~configured
  /\ resp.op = "checkout"
  /\ resp.req = [items |-> <<ItemA, ItemB>>]
  /\ resp.result = "not_configured"

ValidationFailed(r) == r.result \in {"RequestValidationError", "ValidationError"}

ItemComplete(it) == ItemOk(it) /\ "price" \in DOMAIN it

C7_RoundTrips ==
  /\ resp.op \in {"list_products", "get_product", "wishlist_add", "checkout"}
       => (resp.calls <= 1 /\ (resp.result = "ok" => resp.calls = 1))
  /\ (resp.op = "add_review" /\ resp.result = "ok") => resp.calls = 2
  /\ (resp.op = "seed_catalog" /\ resp.result = "ok") =>
       resp.calls = IF resp.body.status = "seeded" THEN 1 + Len(sample_products) ELSE 1

(* C7 as stated: every request that is answered with success made       *)
(* exactly one round trip to the store.                                 *)
C7_OneRoundTrip == resp.result = "ok" => resp.calls = 1

C7_Witness ==
  /\ resp.op = "add_review"
  /\ resp.result = "ok"
  /\ resp.calls = 2
  /\ \E t \in DOMAIN th : th[t].pc = "seed" /\ th[t].calls = 3

(* C8: no step removes or changes a document of any collection; a       *)
(* product's fields are the same after a review of it is inserted.      *)
C8_InsertOnly ==
  [][\A c \in DOMAIN store : store[c] \subseteq store'[c]]_vars

C8_Witness ==
  \E r \in store.review, d \in store.product :
    /\ r.product_id = str(d._id)
    /\ WithoutId(d) = sample_products[1]
    /\ resp.op = "add_review"
    /\ resp.result = "ok"

(* C9: every checkout that succeeds inserts one new order under an      *)
(* identifier no other order has, also when an order with the same      *)
(* content is already stored.                                           *)
C9_CheckoutNotIdempotent ==
  /\ \A o1, o2 \in store.order : o1._id = o2._id => o1 = o2
  /\ (resp.op = "checkout" /\ resp.result = "ok") =>
       /\ resp.wrote = 1
       /\ \E o \in store.order :
            str(o._id) = resp.body.order_id /\ o.items = checkout_items(resp.req.items)

C9_Witness ==
  /\ resp.op = "checkout"
  /\ resp.result = "ok"
  /\ \E o1, o2 \in store.order :
       /\ o1._id # o2._id
       /\ WithoutId(o1) = WithoutId(o2)
       /\ o1.items # <<>>
       /\ str(o2._id) = resp.body.order_id

(* C10: once no seed_catalog request is running, the product collection *)
(* is empty or holds exactly the three sample products, each once.      *)
C10_SeededOnce ==
  Quiet =>
    \/ store.product = {}
    \/ /\ Cardinality(store.product) = Len(sample_products)
       /\ \A n \in DOMAIN sample_products :
            Cardinality({d \in store.product : WithoutId(d) = sample_products[n]}) = 1

====
